---- MODULE Spec2Model ----
(***************************************************************************)
(* The concurrent crawl engine of Scrapers/link_scraper.py: scrape_links   *)
(* (the coordinator), its worker tasks, the asyncio.Queue they share, the  *)
(* visited set, and the PostgreSQL store reached through one SQLAlchemy    *)
(* session per worker (Database/helper_functions.py, Database/models.py).  *)
(*                                                                         *)
(* asyncio runs one task at a time and switches tasks only at an await     *)
(* that suspends, so every action below is the code between two            *)
(* suspending awaits of one task.  queue.put on the unbounded queue and    *)
(* queue.task_done never suspend.                                          *)
(***************************************************************************)
EXTENDS Integers, Sequences, FiniteSets, TLC

(***************************************************************************)
(* Bounds of the model.                                                    *)
(***************************************************************************)
\* number of worker tasks explored (the program starts WORKERS of them)
NumWorkers == 2

Workers == 1..NumWorkers

(***************************************************************************)
(* URLs.  A URL is a sequence of string pieces; str.startswith is the      *)
(* prefix relation on pieces and str.endswith looks at the last piece.     *)
(***************************************************************************)
Base == <<"http://a.com">>
Home == Base
P1 == <<"http://a.com", "/p1">>
P2 == <<"http://a.com", "/p2">>
P3 == <<"http://a.com", "/p3">>
Img == <<"http://a.com", "/logo", ".png">>
Frag == <<"http://a.com", "/p1", "#">>
Evil == <<"http://a.com", ".evil.com", "/x">>
Ext == <<"http://b.com", "/y">>
Feed == <<"http://a.com", "/feed", ".xml">>
Empty == <<>>
NoUrl == <<"-">>

AllUrls == {Home, P1, P2, P3, Img, Frag, Evil, Ext, Feed, Empty}

\* the suffixes of the two endswith tuples of worker
AssetSuffixes ==
  {"#", ".jpg", ".jpeg", ".png", ".gif", ".svg", ".pdf", ".zip", ".mp4",
   ".mp3", ".avi", ".wmv", ".doc", ".docx", ".xls", ".xlsx", ".ppt", ".pptx",
   ".exe", ".dmg", ".iso", ".tar", ".gz", ".rar", ".7z", ".css", ".js",
   ".json", ".xml", ".rss", ".atom", ".woff", ".woff2", ".ttf", ".eot", ".ico"}

\* url.endswith((... the tuple of suffixes ...))
IsAsset(url) == Len(url) > 0 /\ url[Len(url)] \in AssetSuffixes

\* link.startswith(base_url)
StartsWith(link, base) ==
  /\ Len(link) >= Len(base)
  /\ SubSeq(link, 1, Len(base)) = base

(***************************************************************************)
(* The sites crawled: for every page, the hrefs of its anchors in document *)
(* order (page.locator("a") ... el.href).                                  *)
(***************************************************************************)
NoLinks == [u \in AllUrls |-> <<>>]

\* a cycle, an anchor repeated on one page, an asset, an empty href, an
\* external link, and a page (P2) linked from two pages
SiteA ==
  [NoLinks EXCEPT ![Home] = <<P1, P2, P1, Img, Empty, Ext>>,
                  ![P1] = <<P2, Home, Frag>>,
                  ![P2] = <<P1>>]

\* a chain: P2 and P3 are linked only from P1
SiteB ==
  [NoLinks EXCEPT ![Home] = <<P1>>,
                  ![P1] = <<P2, P3, Evil>>,
                  ![P2] = <<P3>>]

Sites == {SiteA, SiteB}

\* the base urls entered: the root of the site, and the url of a feed
Seeds == {Home, Feed}

\* pages scraped before this program run in single-URL mode (main.py, CASE 1)
PriorChoices == {{}, {P1}}

(***************************************************************************)
(* State.                                                                  *)
(***************************************************************************)
VARIABLES
  site,        \* [links, prior, base]: the site, what was scraped before, the seed
  run,         \* "first" or "second" run of scrape_links against the store
  queue,       \* asyncio.Queue: the items, FIFO
  unfinished,  \* asyncio.Queue._unfinished_tasks
  visited,     \* the visited set of scrape_links
  pc,          \* per worker: the await it is suspended at
  cur,         \* per worker: url of the loop body
  loc,         \* per worker: locals title, page_id, tags_data
  cancelReq,   \* per worker: task.cancel() was called and not yet delivered
  coordPc,     \* scrape_links: "join", "woken" (join's event set), "done"
  reported,    \* len(visited) as printed by scrape_links, -1 before
  sess,        \* per worker: the session's open transaction
  store,       \* committed rows of the store, and the pages id sequence
  hist,        \* history of the run, for stating properties
  prog         \* main: where the program is, its input and its exit status

vars == <<site, run, queue, unfinished, visited, pc, cur, loc, cancelReq,
          coordPc, reported, sess, store, hist, prog>>

(***************************************************************************)
(* Pure helpers of the worker.                                             *)
(***************************************************************************)
\* the pieces of a URL that begin a path segment
SegmentStarts == {"/p1", "/p2", "/p3", "/logo", "/x", "/y", "/feed"}

RECURSIVE LastSegmentFrom(_, _)
LastSegmentFrom(url, i) ==
  IF i = 0 THEN 0
  ELSE IF url[i] \in SegmentStarts THEN i
  ELSE LastSegmentFrom(url, i - 1)

\* extract_name: the last segment of the path, "home" when the path is empty;
\* urlparse leaves the fragment marker out of the path
extract_name(url) ==
  LET i == LastSegmentFrom(url, Len(url))
  IN  IF i = 0 THEN <<"home">>
      ELSE SelectSeq(SubSeq(url, i, Len(url)), LAMBDA t : t # "#")

\* page.title() of the rendered page
TitleOf(url) == <<"title of">> \o url

Null == "null"

\* tags asked for (config.DEFAULT_TAGS, shortened): a text tag, the link tag,
\* a media tag and a tag of no category
RequestedTags == <<"h1", "a", "img", "span">>

text_only_tags == {"h1", "h2", "h3", "h4", "h5", "h6", "p", "th", "td", "li"}
link_tags == {"a"}
media_tags == {"img", "audio", "video"}

\* the columns save_tag fills from tags_data
TagColumns == text_only_tags \cup link_tags \cup media_tags

\* page.locator(tag).evaluate_all(...): text, href, src, alt of each element
Elements(links, url, tag) ==
  IF tag = "h1" THEN
    <<[text |-> "heading", href |-> Null, src |-> Null, alt |-> Null]>>
  ELSE IF tag = "a" THEN
    [i \in 1..Len(links[url]) |->
       [text |-> "anchor", href |-> links[url][i], src |-> Null, alt |-> Null]]
  ELSE IF tag = "img" /\ url = Home THEN
    <<[text |-> Null, href |-> Null, src |-> "/logo.png", alt |-> "logo"]>>
  ELSE IF tag = "span" THEN
    <<[text |-> "s", href |-> Null, src |-> Null, alt |-> Null]>>
  ELSE <<>>

\* the formatted_data of one tag: keyed 1..n in document order
FormatTag(tag, elements) ==
  IF tag \in text_only_tags THEN
    [i \in 1..Len(elements) |-> elements[i].text]
  ELSE IF tag \in link_tags THEN
    [i \in 1..Len(elements) |->
       [text |-> elements[i].text, href |-> elements[i].href]]
  ELSE IF tag \in media_tags THEN
    [i \in 1..Len(elements) |->
       [alt |-> elements[i].alt, src |-> elements[i].src]]
  ELSE <<>>

\* extract_tags_from_page when no evaluate_all raises
extract_tags_from_page(links, url, tags) ==
  [tag \in {tags[i] : i \in 1..Len(tags)} |->
     FormatTag(tag, Elements(links, url, tag))]

NoTags == [tag \in {} |-> <<>>]

\* the tag_values of save_tag: tags_data.get(column) for each column
TagValues(tags_data) ==
  [c \in TagColumns |->
     IF c \in DOMAIN tags_data THEN tags_data[c] ELSE Null]

(***************************************************************************)
(* The store.  Rows a session wrote and has not committed are held in the  *)
(* session; a statement sees the committed rows and its own session's.     *)
(***************************************************************************)
\* the id save_website returns for the first website saved
WebsiteId == 1

NoSession == [st |-> "idle", links |-> {}, pages |-> {}, tags |-> {}]

EmptyStore ==
  [links |-> {}, pages |-> {}, tags |-> {}, seq |-> 0,
   websites |-> {}, wseq |-> 0]

\* the pieces of a URL that make its scheme and host
HostPieces == {"http://a.com", ".evil.com", "http://b.com"}

\* scheme and host of a URL, as urlparse splits it
Origin(u) == SelectSeq(u, LAMBDA t : t \in HostPieces)

\* save_website and the commit that follows it: INSERT ... ON CONFLICT
\* (base_url) DO UPDATE SET name; the insert draws a value of the id sequence
\* whether or not the row is new
save_website(st, base_url) ==
  IF \E r \in st.websites : r.base_url = base_url
  THEN [st EXCEPT !.wseq = @ + 1]
  ELSE [st EXCEPT !.wseq = @ + 1,
                  !.websites = @ \cup
                    {[id |-> st.wseq + WebsiteId, base_url |-> base_url]}]

\* the id save_website returned for base_url
website_id(st, base_url) ==
  (CHOOSE r \in st.websites : r.base_url = base_url).id

NewPageRow(id, url, wid) ==
  [id |-> id, name |-> extract_name(url), url |-> url,
   title |-> TitleOf(url), website_id |-> wid]

RECURSIVE ScrapeSingle(_, _, _)
\* main in single-URL mode, once per url of todo: the website of the URL's
\* scheme and host is saved, then scrape_tags(urls=[url]) writes a Page row
\* and its Tag row, no Link row
ScrapeSingle(st0, todo, links) ==
  IF todo = {} THEN st0
  ELSE LET u == CHOOSE x \in todo : TRUE
           st == save_website(st0, Origin(u))
           id == st.seq + 1
       IN  ScrapeSingle(
             [st EXCEPT !.seq = id,
                        !.pages = @ \cup
                          {NewPageRow(id, u, website_id(st, Origin(u)))},
                        !.tags = @ \cup
                          {[page_id |-> id,
                            data |-> TagValues(
                              extract_tags_from_page(links, u, RequestedTags))]}],
             todo \ {u}, links)

VisibleLinks(s, st) == st.links \cup s.links

VisiblePages(s, st) ==
  {p \in st.pages : \A q \in s.pages : q.url # p.url} \cup s.pages

VisibleTags(s, st) == st.tags \cup s.tags

\* save_link: INSERT ... ON CONFLICT DO NOTHING (Links.url is unique)
save_link(s, st, url, wid) ==
  IF \E l \in VisibleLinks(s, st) : l.url = url THEN [s EXCEPT !.st = "active"]
  ELSE [s EXCEPT !.st = "active",
                 !.links = @ \cup {[url |-> url, website_id |-> wid]}]

\* the id save_page returns: the id of the row with this url, else a new one
PageIdFor(s, st, url) ==
  IF \E p \in VisiblePages(s, st) : p.url = url
  THEN (CHOOSE p \in VisiblePages(s, st) : p.url = url).id
  ELSE st.seq + 1

\* the insert of save_page with ON CONFLICT DO NOTHING
save_page_keeps_first(s, st, name, url, title, wid) ==
  IF \E p \in VisiblePages(s, st) : p.url = url THEN [s EXCEPT !.st = "active"]
  ELSE
    [s EXCEPT !.st = "active",
              !.pages = @ \cup
                {[id |-> st.seq + 1, name |-> name, url |-> url,
                  title |-> title, website_id |-> wid]}]

\* save_page: INSERT ... ON CONFLICT (url) DO UPDATE SET title, website_id
save_page(s, st, name, url, title, wid) ==
  IF \E p \in VisiblePages(s, st) : p.url = url THEN
    LET old == CHOOSE p \in VisiblePages(s, st) : p.url = url
    IN  [s EXCEPT !.st = "active",
                  !.pages = {q \in @ : q.url # url} \cup
                            {[old EXCEPT !.title = title, !.website_id = wid]}]
  ELSE
    [s EXCEPT !.st = "active",
              !.pages = @ \cup
                {[id |-> st.seq + 1, name |-> name, url |-> url,
                  title |-> title, website_id |-> wid]}]

\* page_id without the unique constraint
TagConflictNever(s, st, page_id) == FALSE

\* the unique constraint on Tag.page_id
TagConflict(s, st, page_id) ==
  \E t \in VisibleTags(s, st) : t.page_id = page_id

\* save_tag when the insert is accepted
save_tag(s, page_id, tags_data) ==
  [s EXCEPT !.st = "active",
            !.tags = @ \cup {[page_id |-> page_id, data |-> TagValues(tags_data)]}]

\* a commit that stores nothing
CommitStoreNothing(s, st) == st

\* session.commit(): the session's rows become the committed rows
CommitStore(s, st) ==
  [st EXCEPT !.links = @ \cup s.links,
             !.pages = VisiblePages(s, st),
             !.tags = @ \cup s.tags]

(***************************************************************************)
(* The frontier: the two tests of worker and the wake-up of queue.join().  *)
(***************************************************************************)
\* Admits without the test of the visited set
AdmitsIgnoringVisited(url, vis) == ~IsAsset(url)

\* Admits without the test of the suffixes
AdmitsIgnoringAsset(url, vis) == url \notin vis

\* worker, after queue.get(): the url is processed unless it was visited or
\* is an asset
Admits(url, vis) == url \notin vis /\ ~IsAsset(url)

\* ShouldEnqueue without the test of the visited set
ShouldEnqueueIgnoringVisited(link, base, vis) ==
  /\ link # Empty
  /\ StartsWith(link, base)
  /\ ~IsAsset(link)

\* ShouldEnqueue without the test of the base url
ShouldEnqueueAnyHost(link, base, vis) ==
  /\ link # Empty
  /\ link \notin vis
  /\ ~IsAsset(link)

\* worker, the test of the loop over the anchors of the page
ShouldEnqueue(link, base, vis) ==
  /\ link # Empty
  /\ StartsWith(link, base)
  /\ link \notin vis
  /\ ~IsAsset(link)

\* JoinReleased that waits for an empty queue instead of the unfinished count
JoinReleasedWhenEmpty(unf, q) == q = <<>>

\* queue.join() returns once the count of unfinished items is zero
JoinReleased(unf, q) == unf = 0

\* Discovered that leaves the loop after the first link it puts
DiscoveredFirstOnly(links, base, vis) ==
  LET all == SelectSeq(links, LAMBDA l : ShouldEnqueue(l, base, vis))
  IN  IF all = <<>> THEN <<>> ELSE <<Head(all)>>

\* the links of one page that the loop puts into the queue, in order
Discovered(links, base, vis) ==
  SelectSeq(links, LAMBDA l : ShouldEnqueue(l, base, vis))

(***************************************************************************)
(* Initial state: scrape_links has saved the site, put the seed and        *)
(* created its worker tasks, and is about to await queue.join().           *)
(***************************************************************************)
NoLoc == [title |-> <<>>, page_id |-> 0, tags_data |-> NoTags]

NoRun == [ran |-> FALSE, visited |-> {}, clean |-> FALSE]

\* main before get_user_input: no mode, no exit status yet, and the locals
\* of scrape_tags (its session, page_id, tags_data)
ProgInit ==
  [pc |-> "input", mode |-> "none", valid |-> TRUE, url |-> NoUrl,
   exit |-> -1, failed |-> "none", sess |-> NoSession, page_id |-> 0,
   tags_data |-> NoTags]

\* main has read a base url (mode 1 or 2) and called scrape_links
ProgCrawl == [ProgInit EXCEPT !.pc = "crawl", !.mode = "1"]

HistInit(first) ==
  [gotoCount |-> [u \in AllUrls |-> 0],
   putCount |-> [u \in AllUrls |-> IF u = site.base THEN 1 ELSE 0],
   admitCount |-> [u \in AllUrls |-> 0],
   putVisited |-> FALSE,
   renderFailed |-> {},
   extractFailed |-> {},
   dbFailed |-> {},
   linksFrom |-> {},
   written |-> {},
   pagesCommitted |-> {},
   launchFailed |-> {},
   steps |-> [u \in AllUrls |-> <<>>],
   cancelled |-> {},
   first |-> first]

RunInit ==
  /\ queue = <<site.base>>
  /\ unfinished = 1
  /\ visited = {}
  /\ pc = [w \in Workers |-> "start"]
  /\ cur = [w \in Workers |-> NoUrl]
  /\ loc = [w \in Workers |-> NoLoc]
  /\ cancelReq = [w \in Workers |-> FALSE]
  /\ coordPc = "join"
  /\ reported = -1
  /\ sess = [w \in Workers |-> NoSession]

Init ==
  /\ site \in [links : Sites, prior : PriorChoices, base : Seeds]
  /\ run = "first"
  /\ RunInit
  /\ store = save_website(ScrapeSingle(EmptyStore, site.prior, site.links),
                          site.base)
  /\ hist = HistInit(NoRun)
  /\ prog = ProgCrawl

(***************************************************************************)
(* The worker.                                                             *)
(***************************************************************************)
\* Logged(h, u, evs): the history h with the steps evs added to those of u
Logged(h, u, evs) == [h EXCEPT !.steps[u] = @ \o evs]

\* task_done left out
UnfinishedAfterDoneSkipped(unf) == unf

\* task_done called twice for one item
UnfinishedAfterDoneTwice(unf) == unf - 2

\* queue.task_done(): one item less is unfinished
UnfinishedAfterDone(unf) == unf - 1

\* queue.task_done() of the finally clause after nPut calls of queue.put
\* that left the queue as q, and the return to queue.get() (or the end of
\* the task)
Finish(w, nPut, nextPc, q) ==
  /\ unfinished' = UnfinishedAfterDone(unfinished + nPut)
  /\ coordPc' = IF /\ coordPc = "join"
                   /\ JoinReleased(UnfinishedAfterDone(unfinished + nPut), q)
                THEN "woken" ELSE coordPc
  /\ pc' = [pc EXCEPT ![w] = nextPc]
  /\ cur' = [cur EXCEPT ![w] = NoUrl]
  /\ loc' = [loc EXCEPT ![w] = NoLoc]

\* launch_browser, new_page, the headers and the init script, and the
\* opening of the session
Launch(w) ==
  /\ pc[w] = "start"
  /\ ~cancelReq[w]
  /\ pc' = [pc EXCEPT ![w] = "get"]
  /\ UNCHANGED <<site, run, queue, unfinished, visited, cur, loc, cancelReq,
                 coordPc, reported, sess, store, hist, prog>>

\* launch_browser, new_page, set_extra_http_headers or add_init_script
\* raises: the task ends with the exception before the session is opened and
\* before the first queue.get(); nobody awaits the task
LaunchFail(w) ==
  /\ pc[w] = "start"
  /\ ~cancelReq[w]
  /\ pc' = [pc EXCEPT ![w] = "stopped"]
  /\ hist' = [hist EXCEPT !.launchFailed = @ \cup {w}]
  /\ UNCHANGED <<site, run, queue, unfinished, visited, cur, loc, cancelReq,
                 coordPc, reported, sess, store, prog>>

\* visited.add(url) left out
MarkVisitedForgotten(vis, url) == vis

\* visited.add(url), before the page is loaded
MarkVisited(vis, url) == vis \cup {url}

\* url = await queue.get(), then the visited and asset tests.  None is
\* never put into the queue, so the break on None is not taken.
Get(w) ==
  /\ pc[w] = "get"
  /\ ~cancelReq[w]
  /\ queue # <<>>
  /\ LET url == Head(queue)
     IN  /\ queue' = Tail(queue)
         /\ IF Admits(url, visited)
            THEN /\ visited' = MarkVisited(visited, url)
                 /\ pc' = [pc EXCEPT ![w] = "goto"]
                 /\ cur' = [cur EXCEPT ![w] = url]
                 /\ hist' = [hist EXCEPT !.admitCount[url] = @ + 1]
                 /\ UNCHANGED <<unfinished, coordPc, loc>>
            ELSE /\ Finish(w, 0, "get", Tail(queue))
                 /\ UNCHANGED <<visited, hist>>
  /\ UNCHANGED <<site, run, cancelReq, reported, sess, store, prog>>

\* the delay left out: from page.goto straight to page.title
AfterGotoNoDelay == "title"

\* what follows a page.goto that returned: the delay
AfterGoto == "sleep"

\* await page.goto(url, ...) returns
GotoOK(w) ==
  /\ pc[w] = "goto"
  /\ ~cancelReq[w]
  /\ pc' = [pc EXCEPT ![w] = AfterGoto]
  /\ hist' = Logged([hist EXCEPT !.gotoCount[cur[w]] = @ + 1],
                    cur[w], <<"goto">>)
  /\ UNCHANGED <<site, run, queue, unfinished, visited, cur, loc, cancelReq,
                 coordPc, reported, sess, store, prog>>

\* await page.goto(url, ...) raises: logged, continue
GotoFail(w) ==
  /\ pc[w] = "goto"
  /\ ~cancelReq[w]
  /\ hist' = Logged([hist EXCEPT !.gotoCount[cur[w]] = @ + 1,
                                 !.renderFailed = @ \cup {cur[w]}],
                    cur[w], <<"goto", "done">>)
  /\ Finish(w, 0, "get", queue)
  /\ UNCHANGED <<site, run, queue, visited, cancelReq, reported, sess, store,
                 prog>>

\* await asyncio.sleep(random.uniform(*DELAY_RANGE)) returns
Sleep(w) ==
  /\ pc[w] = "sleep"
  /\ ~cancelReq[w]
  /\ pc' = [pc EXCEPT ![w] = "title"]
  /\ hist' = Logged(hist, cur[w], <<"sleep">>)
  /\ UNCHANGED <<site, run, queue, unfinished, visited, cur, loc, cancelReq,
                 coordPc, reported, sess, store, prog>>

\* title = await page.title(); name = extract_name(url)
Title(w) ==
  /\ pc[w] = "title"
  /\ ~cancelReq[w]
  /\ loc' = [loc EXCEPT ![w].title = TitleOf(cur[w])]
  /\ pc' = [pc EXCEPT ![w] = "save_link"]
  /\ hist' = Logged(hist, cur[w], <<"title">>)
  /\ UNCHANGED <<site, run, queue, unfinished, visited, cur, cancelReq,
                 coordPc, reported, sess, store, prog>>

\* a statement waits while another session holds an uncommitted row with the
\* same unique key
LinkLocked(w, url) ==
  \E v \in Workers \ {w} : \E l \in sess[v].links : l.url = url

PageLocked(w, url) ==
  \E v \in Workers \ {w} : \E p \in sess[v].pages : p.url = url

TagLocked(w, page_id) ==
  \E v \in Workers \ {w} : \E t \in sess[v].tags : t.page_id = page_id

\* a statement in a transaction that a failed statement aborted raises
\* (the worker never rolls back); caught by except Exception
StatementRefused(w) ==
  /\ sess[w].st = "aborted"
  /\ hist' = Logged([hist EXCEPT !.dbFailed = @ \cup {cur[w]}],
                    cur[w], <<pc[w], "done">>)
  /\ Finish(w, 0, "get", queue)
  /\ UNCHANGED <<site, run, queue, visited, cancelReq, reported, sess, store,
                 prog>>

\* await save_link(session, url, website_id)
SaveLink(w) ==
  /\ pc[w] = "save_link"
  /\ ~cancelReq[w]
  /\ \/ StatementRefused(w)
     \/ /\ sess[w].st # "aborted"
        /\ ~LinkLocked(w, cur[w])
        /\ sess' = [sess EXCEPT ![w] = save_link(@, store, cur[w], website_id(store, site.base))]
        /\ pc' = [pc EXCEPT ![w] = "save_page"]
        /\ hist' = Logged([hist EXCEPT !.written = @ \cup {cur[w]}],
                          cur[w], <<"save_link">>)
        /\ UNCHANGED <<site, run, queue, unfinished, visited, cur, loc,
                       cancelReq, coordPc, reported, store, prog>>

\* page_id = await save_page(session, name, url, title, website_id); the
\* insert draws a value of the id sequence whether or not the row is new
SavePage(w) ==
  /\ pc[w] = "save_page"
  /\ ~cancelReq[w]
  /\ \/ StatementRefused(w)
     \/ /\ sess[w].st # "aborted"
        /\ ~PageLocked(w, cur[w])
        /\ sess' = [sess EXCEPT ![w] =
                      save_page(@, store, extract_name(cur[w]), cur[w],
                                loc[w].title,
                                website_id(store, site.base))]
        /\ loc' = [loc EXCEPT ![w].page_id = PageIdFor(sess[w], store, cur[w])]
        /\ store' = [store EXCEPT !.seq = @ + 1]
        /\ pc' = [pc EXCEPT ![w] = "extract"]
        /\ hist' = Logged([hist EXCEPT !.written = @ \cup {cur[w]}],
                          cur[w], <<"save_page">>)
        /\ UNCHANGED <<site, run, queue, unfinished, visited, cur, cancelReq,
                       coordPc, reported, prog>>

\* tags_data = await extract_tags_from_page(page, tags): every evaluate_all
\* returns.  The awaits of the loop over the tags touch only locals of the
\* call, so the loop is one step.
ExtractOK(w) ==
  /\ pc[w] = "extract"
  /\ ~cancelReq[w]
  /\ loc' = [loc EXCEPT ![w].tags_data =
               extract_tags_from_page(site.links, cur[w], RequestedTags)]
  /\ pc' = [pc EXCEPT ![w] = "save_tag"]
  /\ hist' = Logged(hist, cur[w], <<"extract">>)
  /\ UNCHANGED <<site, run, queue, unfinished, visited, cur, cancelReq,
                 coordPc, reported, sess, store, prog>>

\* an evaluate_all of extract_tags_from_page raises for one tag: nothing
\* catches it before the except Exception of worker
ExtractFail(w) ==
  /\ pc[w] = "extract"
  /\ ~cancelReq[w]
  /\ \E i \in 1..Len(RequestedTags) :
       hist' = Logged([hist EXCEPT !.extractFailed = @ \cup {cur[w]}],
                      cur[w], <<"extract", "done">>)
  /\ Finish(w, 0, "get", queue)
  /\ UNCHANGED <<site, run, queue, visited, cancelReq, reported, sess, store,
                 prog>>

\* await save_tag(session, page_id, tags_data): the insert violates the
\* unique constraint on page_id and aborts the transaction, or is accepted
SaveTag(w) ==
  /\ pc[w] = "save_tag"
  /\ ~cancelReq[w]
  /\ \/ StatementRefused(w)
     \/ /\ sess[w].st # "aborted"
        /\ ~TagLocked(w, loc[w].page_id)
        /\ IF TagConflict(sess[w], store, loc[w].page_id)
           THEN /\ sess' = [sess EXCEPT ![w] = [NoSession EXCEPT !.st = "aborted"]]
                /\ hist' = Logged([hist EXCEPT !.dbFailed = @ \cup {cur[w]}],
                                  cur[w], <<"save_tag", "done">>)
                /\ Finish(w, 0, "get", queue)
                /\ UNCHANGED <<site, run, queue, visited, cancelReq, reported,
                               store, prog>>
           ELSE /\ sess' = [sess EXCEPT ![w] =
                              save_tag(@, loc[w].page_id, loc[w].tags_data)]
                /\ pc' = [pc EXCEPT ![w] = "commit"]
                /\ hist' = Logged([hist EXCEPT !.written = @ \cup {cur[w]}],
                                  cur[w], <<"save_tag">>)
                /\ UNCHANGED <<site, run, queue, unfinished, visited, cur, loc,
                               cancelReq, coordPc, reported, store, prog>>

\* await session.commit()
Commit(w) ==
  /\ pc[w] = "commit"
  /\ ~cancelReq[w]
  /\ store' = CommitStore(sess[w], store)
  /\ sess' = [sess EXCEPT ![w] = NoSession]
  /\ pc' = [pc EXCEPT ![w] = "links"]
  /\ hist' = Logged([hist EXCEPT !.pagesCommitted =
                        @ \cup {p.url : p \in sess[w].pages}],
                    cur[w], <<"commit">>)
  /\ UNCHANGED <<site, run, queue, unfinished, visited, cur, loc, cancelReq,
                 coordPc, reported, prog>>

\* links = await page.locator("a").evaluate_all(...), the loop of queue.put
\* over them, and the finally clause
Links(w) ==
  /\ pc[w] = "links"
  /\ ~cancelReq[w]
  /\ LET new == Discovered(site.links[cur[w]], site.base, visited)
     IN  /\ queue' = queue \o new
         /\ hist' = Logged([hist EXCEPT
               !.putCount = [u \in AllUrls |->
                  @[u] + Cardinality({i \in 1..Len(new) : new[i] = u})],
               !.putVisited = @ \/ \E i \in 1..Len(new) : new[i] \in visited,
               !.linksFrom = @ \cup {cur[w]}],
               cur[w], <<"links", "done">>)
         /\ Finish(w, Len(new), "get", queue \o new)
  /\ UNCHANGED <<site, run, visited, cancelReq, reported, sess, store, prog>>

\* the committed rows of url u in the store st
RowsOf(st, u) ==
  [links |-> {l \in st.links : l.url = u},
   pages |-> {p \in st.pages : p.url = u},
   tags  |-> {t \in st.tags : \E p \in st.pages : p.url = u /\ t.page_id = p.id}]

\* a cancellation that is swallowed: the loop goes on
AfterCancelSwallowed == "get"

\* except asyncio.CancelledError: break, which ends the task
AfterCancel == "stopped"

\* CancelledError is raised at the await the task is suspended at: outside
\* the try (queue.get, the start-up) it ends the task; inside, the except
\* clause breaks and the finally clause calls task_done.  Leaving the
\* async with closes the session, which rolls its transaction back.
Cancelled(w) ==
  /\ cancelReq[w]
  /\ pc[w] # "stopped"
  /\ cancelReq' = [cancelReq EXCEPT ![w] = FALSE]
  /\ sess' = [sess EXCEPT ![w] = NoSession]
  /\ IF pc[w] \in {"start", "get"}
     THEN /\ pc' = [pc EXCEPT ![w] = "stopped"]
          /\ cur' = [cur EXCEPT ![w] = NoUrl]
          /\ loc' = [loc EXCEPT ![w] = NoLoc]
          /\ UNCHANGED <<unfinished, coordPc, hist>>
     ELSE /\ Finish(w, 0, AfterCancel, queue)
          /\ hist' = Logged([hist EXCEPT !.cancelled = @ \cup
                               {[w |-> w, url |-> cur[w], at |-> pc[w],
                                 rows |-> RowsOf(store, cur[w])]}],
                            cur[w], <<"done">>)
  /\ UNCHANGED <<site, run, queue, visited, reported, store, prog>>

(***************************************************************************)
(* The coordinator, scrape_links.                                          *)
(***************************************************************************)
\* queue.join() has returned: task.cancel() for every task, then the count
\* of visited pages is logged and printed and scrape_links returns; there is
\* no await between these statements
Quiesce ==
  /\ coordPc = "woken"
  /\ cancelReq' = [w \in Workers |-> pc[w] # "stopped"]
  /\ reported' = Cardinality(visited)
  /\ coordPc' = "done"
  /\ UNCHANGED <<site, run, queue, unfinished, visited, pc, cur, loc, sess,
                 store, hist, prog>>

\* the program is run again on the same site against the same store
Restart ==
  /\ run = "first"
  /\ coordPc = "done"
  /\ \A w \in Workers : pc[w] = "stopped"
  /\ run' = "second"
  /\ queue' = <<site.base>>
  /\ unfinished' = 1
  /\ visited' = {}
  /\ pc' = [w \in Workers |-> "start"]
  /\ cur' = [w \in Workers |-> NoUrl]
  /\ loc' = [w \in Workers |-> NoLoc]
  /\ cancelReq' = [w \in Workers |-> FALSE]
  /\ coordPc' = "join"
  /\ reported' = -1
  /\ sess' = [w \in Workers |-> NoSession]
  /\ hist' = HistInit([ran |-> TRUE, visited |-> visited,
                       clean |-> /\ hist.renderFailed = {}
                                 /\ hist.extractFailed = {}
                                 /\ hist.dbFailed = {}])
  /\ store' = save_website(store, site.base)
  /\ UNCHANGED <<site, prog>>

WorkerStep(w) ==
  \/ Launch(w)
  \/ Get(w)
  \/ GotoOK(w)
  \/ GotoFail(w)
  \/ Sleep(w)
  \/ Title(w)
  \/ SaveLink(w)
  \/ SavePage(w)
  \/ ExtractOK(w)
  \/ ExtractFail(w)
  \/ SaveTag(w)
  \/ Commit(w)
  \/ Links(w)
  \/ Cancelled(w)

Next ==
  \/ \E w \in Workers : WorkerStep(w)
  \/ Quiesce
  \/ Restart

Spec == Init /\ [][Next]_vars

(***************************************************************************)
(* A second run with another base URL on the same site.                    *)
(***************************************************************************)
\* a base URL below the first one
SubBase == P1

\* the program is run again against the same store with base URL SubBase:
\* save_website inserts a second Website row and the workers write with its
\* id
RestartSubtree ==
  /\ run = "first"
  /\ coordPc = "done"
  /\ \A w \in Workers : pc[w] = "stopped"
  /\ site.base # SubBase
  /\ run' = "second"
  /\ site' = [site EXCEPT !.base = SubBase]
  /\ queue' = <<SubBase>>
  /\ unfinished' = 1
  /\ visited' = {}
  /\ pc' = [w \in Workers |-> "start"]
  /\ cur' = [w \in Workers |-> NoUrl]
  /\ loc' = [w \in Workers |-> NoLoc]
  /\ cancelReq' = [w \in Workers |-> FALSE]
  /\ coordPc' = "join"
  /\ reported' = -1
  /\ sess' = [w \in Workers |-> NoSession]
  /\ hist' = [HistInit([ran |-> TRUE, visited |-> visited, clean |-> FALSE])
                EXCEPT !.putCount =
                  [u \in AllUrls |-> IF u = SubBase THEN 1 ELSE 0]]
  /\ store' = save_website(store, SubBase)
  /\ UNCHANGED prog

NextTwoBases ==
  \/ Next
  \/ RestartSubtree

SpecTwoBases == Init /\ [][NextTwoBases]_vars

(***************************************************************************)
(* The helper functions of the store, called from sessions in any order.   *)
(***************************************************************************)
MaxCalls == 4

StoreUrls == {P1, P2}

Titles == {"first title", "second title"}

WebsiteIds == {WebsiteId, WebsiteId + 1}

\* two results of extract_tags_from_page that differ
TagInputs ==
  {extract_tags_from_page(SiteA, P1, RequestedTags),
   extract_tags_from_page(SiteB, P1, RequestedTags)}

NoCall ==
  [op |-> "none", w |-> 0, url |-> NoUrl, title |-> "", wid |-> 0, had |-> 0,
   ret |-> 0, page_id |-> 0, data |-> NoTags, refused |-> FALSE,
   before |-> {}, stored |-> {}]

InitStore ==
  /\ site \in [links : {SiteA}, prior : PriorChoices, base : {Home}]
  /\ run = "first"
  /\ queue = <<>>
  /\ unfinished = 0
  /\ visited = {}
  /\ pc = [w \in Workers |-> "caller"]
  /\ cur = [w \in Workers |-> NoUrl]
  /\ loc = [w \in Workers |-> NoLoc]
  /\ cancelReq = [w \in Workers |-> FALSE]
  /\ coordPc = "none"
  /\ reported = -1
  /\ sess = [w \in Workers |-> NoSession]
  /\ store = ScrapeSingle(EmptyStore, site.prior, site.links)
  /\ hist = [n |-> 0, last |-> NoCall]
  /\ prog = [ProgInit EXCEPT !.pc = "store"]

\* await save_page(session, name, url, title, website_id) in session w
CallSavePage(w) ==
  /\ hist.n < MaxCalls
  /\ sess[w].st # "aborted"
  /\ \E url \in StoreUrls, title \in Titles, wid \in WebsiteIds :
       /\ ~PageLocked(w, url)
       /\ sess' = [sess EXCEPT ![w] =
                     save_page(@, store, extract_name(url), url, title, wid)]
       /\ store' = [store EXCEPT !.seq = @ + 1]
       /\ hist' = [n |-> hist.n + 1,
                   last |-> [NoCall EXCEPT
                     !.op = "save_page", !.w = w, !.url = url,
                     !.title = title, !.wid = wid,
                     !.had = IF \E p \in VisiblePages(sess[w], store) : p.url = url
                             THEN PageIdFor(sess[w], store, url) ELSE 0,
                     !.before = {p \in VisiblePages(sess[w], store) : p.url = url},
                     !.ret = PageIdFor(sess[w], store, url)]]
  /\ UNCHANGED <<site, run, queue, unfinished, visited, pc, cur, loc,
                 cancelReq, coordPc, reported, prog>>

\* await save_tag(session, page_id, tags_data) in session w, for a page the
\* session sees
CallSaveTag(w) ==
  /\ hist.n < MaxCalls
  /\ sess[w].st # "aborted"
  /\ \E p \in VisiblePages(sess[w], store), data \in TagInputs :
       /\ ~TagLocked(w, p.id)
       /\ sess' = [sess EXCEPT ![w] =
                     IF TagConflict(@, store, p.id)
                     THEN [NoSession EXCEPT !.st = "aborted"]
                     ELSE save_tag(@, p.id, data)]
       /\ hist' = [n |-> hist.n + 1,
                   last |-> [NoCall EXCEPT
                     !.op = "save_tag", !.w = w, !.page_id = p.id,
                     !.data = data,
                     !.refused = TagConflict(sess[w], store, p.id),
                     !.before = {t \in VisibleTags(sess[w], store) :
                                   t.page_id = p.id},
                     !.stored = {t \in store.tags : t.page_id = p.id}]]
  /\ UNCHANGED <<site, run, queue, unfinished, visited, pc, cur, loc,
                 cancelReq, coordPc, reported, store, prog>>

\* await session.commit() in session w
CallCommit(w) ==
  /\ hist.n < MaxCalls
  /\ sess[w].st = "active"
  /\ store' = CommitStore(sess[w], store)
  /\ sess' = [sess EXCEPT ![w] = NoSession]
  /\ hist' = [n |-> hist.n + 1, last |-> [NoCall EXCEPT !.op = "commit", !.w = w]]
  /\ UNCHANGED <<site, run, queue, unfinished, visited, pc, cur, loc,
                 cancelReq, coordPc, reported, prog>>

\* session w is closed without a commit: its transaction is rolled back
CallClose(w) ==
  /\ hist.n < MaxCalls
  /\ sess[w].st \in {"active", "aborted"}
  /\ sess' = [sess EXCEPT ![w] = NoSession]
  /\ hist' = [n |-> hist.n + 1, last |-> [NoCall EXCEPT !.op = "close", !.w = w]]
  /\ UNCHANGED <<site, run, queue, unfinished, visited, pc, cur, loc,
                 cancelReq, coordPc, reported, store, prog>>

NextStore ==
  \E w \in Workers :
    \/ CallSavePage(w)
    \/ CallSaveTag(w)
    \/ CallCommit(w)
    \/ CallClose(w)

SpecStore == InitStore /\ [][NextStore]_vars

(***************************************************************************)
(* The program, main, from the input to the exit status.                   *)
(***************************************************************************)
Modes == {"1", "2", "3"}

\* the page URLs entered in mode 3
SingleUrls == {Home, P1}

InitMain ==
  /\ site \in [links : Sites, prior : PriorChoices, base : Seeds]
  /\ run = "first"
  /\ queue = <<>>
  /\ unfinished = 0
  /\ visited = {}
  /\ pc = [w \in Workers |-> "unborn"]
  /\ cur = [w \in Workers |-> NoUrl]
  /\ loc = [w \in Workers |-> NoLoc]
  /\ cancelReq = [w \in Workers |-> FALSE]
  /\ coordPc = "unborn"
  /\ reported = -1
  /\ sess = [w \in Workers |-> NoSession]
  /\ store = ScrapeSingle(EmptyStore, site.prior, site.links)
  /\ hist = HistInit(NoRun)
  /\ prog = ProgInit

\* get_user_input raises ValueError (empty base URL, empty page URL, or
\* empty tags in modes 2 and 3); main logs it, prints it and returns, and
\* asyncio.run(main()) returns normally: exit status 0
InputInvalid ==
  /\ prog.pc = "input"
  /\ \E mode \in Modes, empty \in {"url", "tags"} :
       /\ empty = "tags" => mode # "1"
       /\ prog' = [prog EXCEPT !.pc = "exited", !.mode = mode,
                               !.valid = FALSE, !.exit = 0]
  /\ UNCHANGED <<site, run, queue, unfinished, visited, pc, cur, loc,
                 cancelReq, coordPc, reported, sess, store, hist>>

\* modes 1 and 2 with a base URL (and tags): main calls scrape_links, which
\* saves the website, puts the base URL and creates the worker tasks
InputCrawl ==
  /\ prog.pc = "input"
  /\ \E mode \in {"1", "2"} :
       prog' = [prog EXCEPT !.pc = "crawl", !.mode = mode]
  /\ queue' = <<site.base>>
  /\ unfinished' = 1
  /\ pc' = [w \in Workers |-> "start"]
  /\ coordPc' = "join"
  /\ store' = save_website(store, site.base)
  /\ UNCHANGED <<site, run, visited, cur, loc, cancelReq, reported, sess,
                 hist>>

\* mode 3 with a page URL and tags: main saves the website and calls
\* scrape_tags(urls=[url], ...)
InputSingle ==
  /\ prog.pc = "input"
  /\ \E url \in SingleUrls :
       /\ prog' = [prog EXCEPT !.pc = "s_goto", !.mode = "3", !.url = url]
       /\ store' = save_website(store, Origin(url))
  /\ UNCHANGED <<site, run, queue, unfinished, visited, pc, cur, loc,
                 cancelReq, coordPc, reported, sess, hist>>

\* scrape_links has returned and the cancelled workers have ended: main
\* returns, exit status 0
CrawlReturns ==
  /\ prog.pc = "crawl"
  /\ coordPc = "done"
  /\ \A w \in Workers : pc[w] = "stopped"
  /\ prog' = [prog EXCEPT !.pc = "exited", !.exit = 0]
  /\ UNCHANGED <<site, run, queue, unfinished, visited, pc, cur, loc,
                 cancelReq, coordPc, reported, sess, store, hist>>

\* scrape_tags: page.goto raises; logged, continue, the loop is over, the
\* browser is closed and main returns
SingleGotoFail ==
  /\ prog.pc = "s_goto"
  /\ prog' = [prog EXCEPT !.pc = "exited", !.exit = 0, !.failed = "render"]
  /\ UNCHANGED <<site, run, queue, unfinished, visited, pc, cur, loc,
                 cancelReq, coordPc, reported, sess, store, hist>>

\* scrape_tags: page.goto returns; title and name are read
SingleGotoOK ==
  /\ prog.pc = "s_goto"
  /\ prog' = [prog EXCEPT !.pc = "s_save_page"]
  /\ UNCHANGED <<site, run, queue, unfinished, visited, pc, cur, loc,
                 cancelReq, coordPc, reported, sess, store, hist>>

\* scrape_tags: page_id = await save_page(...) in a new session
SingleSavePage ==
  /\ prog.pc = "s_save_page"
  /\ prog' = [prog EXCEPT
       !.pc = "s_extract",
       !.sess = save_page(NoSession, store, extract_name(prog.url), prog.url,
                          TitleOf(prog.url),
                          website_id(store, Origin(prog.url))),
       !.page_id = PageIdFor(NoSession, store, prog.url)]
  /\ store' = [store EXCEPT !.seq = @ + 1]
  /\ UNCHANGED <<site, run, queue, unfinished, visited, pc, cur, loc,
                 cancelReq, coordPc, reported, sess, hist>>

\* scrape_tags: tags_data = await extract_tags_from_page(page, tags)
SingleExtractOK ==
  /\ prog.pc = "s_extract"
  /\ prog' = [prog EXCEPT
       !.pc = "s_save_tag",
       !.tags_data = extract_tags_from_page(site.links, prog.url, RequestedTags)]
  /\ UNCHANGED <<site, run, queue, unfinished, visited, pc, cur, loc,
                 cancelReq, coordPc, reported, sess, store, hist>>

\* scrape_tags: an evaluate_all of extract_tags_from_page raises; nothing in
\* scrape_tags catches it, the session is closed, except Exception of main
\* logs it and raises it again, and asyncio.run(main()) ends with it: exit
\* status 1
SingleExtractFail ==
  /\ prog.pc = "s_extract"
  /\ prog' = [prog EXCEPT !.pc = "exited", !.exit = 1, !.failed = "extract",
                          !.sess = NoSession]
  /\ UNCHANGED <<site, run, queue, unfinished, visited, pc, cur, loc,
                 cancelReq, coordPc, reported, sess, store, hist>>

\* scrape_tags: await save_tag(session, page_id, tags_data); a page that has
\* a Tag row makes the insert raise IntegrityError, which ends the program
\* the same way
SingleSaveTag ==
  /\ prog.pc = "s_save_tag"
  /\ IF TagConflict(prog.sess, store, prog.page_id)
     THEN prog' = [prog EXCEPT !.pc = "exited", !.exit = 1,
                               !.failed = "persist", !.sess = NoSession]
     ELSE prog' = [prog EXCEPT !.pc = "s_commit",
                               !.sess = save_tag(@, prog.page_id, prog.tags_data)]
  /\ UNCHANGED <<site, run, queue, unfinished, visited, pc, cur, loc,
                 cancelReq, coordPc, reported, sess, store, hist>>

\* scrape_tags: await session.commit(); the loop is over and main returns
SingleCommit ==
  /\ prog.pc = "s_commit"
  /\ store' = CommitStore(prog.sess, store)
  /\ prog' = [prog EXCEPT !.pc = "exited", !.exit = 0, !.sess = NoSession]
  /\ UNCHANGED <<site, run, queue, unfinished, visited, pc, cur, loc,
                 cancelReq, coordPc, reported, sess, hist>>

NextMain ==
  \/ InputInvalid
  \/ InputCrawl
  \/ InputSingle
  \/ CrawlReturns
  \/ SingleGotoFail
  \/ SingleGotoOK
  \/ SingleSavePage
  \/ SingleExtractOK
  \/ SingleExtractFail
  \/ SingleSaveTag
  \/ SingleCommit
  \/ \E w \in Workers : WorkerStep(w)
  \/ Quiesce

SpecMain == InitMain /\ [][NextMain]_vars

(***************************************************************************)
(* The run is interrupted.                                                 *)
(***************************************************************************)
\* asyncio.run(main()) is interrupted while scrape_links waits in
\* queue.join(): the main task ends with the error (CancelledError and
\* KeyboardInterrupt are not caught by except Exception), nothing is
\* reported, and the runner cancels every task that is left, all workers at
\* once, and runs them until they end
Interrupt ==
  /\ coordPc \in {"join", "woken"}
  /\ coordPc' = "interrupted"
  /\ cancelReq' = [w \in Workers |-> pc[w] # "stopped"]
  /\ prog' = [prog EXCEPT !.pc = "exited", !.exit = 1]
  /\ UNCHANGED <<site, run, queue, unfinished, visited, pc, cur, loc,
                 reported, sess, store, hist>>

NextCancel ==
  \/ Next
  \/ Interrupt

SpecCancel == Init /\ [][NextCancel]_vars

(***************************************************************************)
(* Runs without failures, and runs in which only page.goto fails, against  *)
(* a store that holds nothing of the site.  The event loop runs every task *)
(* that is ready, hence the weak fairness of each task's steps.            *)
(***************************************************************************)
InitFresh == Init /\ site.prior = {}

WorkerOK(w) ==
  \/ Launch(w)
  \/ Get(w)
  \/ GotoOK(w)
  \/ Sleep(w)
  \/ Title(w)
  \/ SaveLink(w)
  \/ SavePage(w)
  \/ ExtractOK(w)
  \/ SaveTag(w)
  \/ Commit(w)
  \/ Links(w)
  \/ Cancelled(w)

NextOK ==
  \/ \E w \in Workers : WorkerOK(w)
  \/ Quiesce

SpecOK ==
  /\ InitFresh
  /\ [][NextOK]_vars
  /\ \A w \in Workers : WF_vars(WorkerOK(w))
  /\ WF_vars(Quiesce)

NextRF ==
  \/ \E w \in Workers : WorkerOK(w) \/ GotoFail(w)
  \/ Quiesce

SpecRF ==
  /\ InitFresh
  /\ [][NextRF]_vars
  /\ \A w \in Workers : WF_vars(WorkerOK(w) \/ GotoFail(w))
  /\ WF_vars(Quiesce)

\* every failure of a page and of a worker's start-up, one run, every task
\* scheduled again and again
NextLF ==
  \/ \E w \in Workers : WorkerStep(w) \/ LaunchFail(w)
  \/ Quiesce

SpecLF ==
  /\ Init
  /\ [][NextLF]_vars
  /\ \A w \in Workers : WF_vars(WorkerStep(w) \/ LaunchFail(w))
  /\ WF_vars(Quiesce)

(***************************************************************************)
(* Properties.                                                             *)
(***************************************************************************)
\* in scope and not an asset, as the spec's URL classifier has it
Admittable(u) == u # Empty /\ StartsWith(u, site.base) /\ ~IsAsset(u)

LinkTargets(u) == {site.links[u][i] : i \in 1..Len(site.links[u])}

RECURSIVE ReachFrom(_, _)
\* the admittable URLs reachable from those of R over pages not in F
ReachFrom(R, F) ==
  LET more == {l \in UNION {LinkTargets(u) : u \in R \ F} : Admittable(l)}
  IN  IF more \subseteq R THEN R ELSE ReachFrom(R \cup more, F)

\* the admittable URLs reachable from the seed when the pages of F yield no
\* links
ReachExcept(F) == ReachFrom({u \in {site.base} : Admittable(u)}, F)

Reach == ReachExcept({})

InFlight == {cur[w] : w \in Workers}

HasLink(u) == \E l \in store.links : l.url = u
HasPage(u) == \E p \in store.pages : p.url = u
HasTag(u) ==
  \E p \in store.pages : p.url = u /\ \E t \in store.tags : t.page_id = p.id

Returned == coordPc = "done"

\* C1: in every run, page.goto is called at most once for every URL,
\* whatever the interleaving of the workers and however often the URL is
\* in the queue.
C1_RenderedAtMostOnce == \A u \in AllUrls : hist.gotoCount[u] <= 1

\* a run has ended in which a URL was put into the queue twice and rendered
\* once
C1_Witness ==
  /\ Returned
  /\ \E u \in AllUrls : hist.putCount[u] >= 2 /\ hist.gotoCount[u] = 1

C3_CrawlsAllThenReturns ==
  /\ <>Returned
  /\ [](Returned => visited = Reach /\ queue = <<>>)

\* a run over a site with four reachable pages has returned
C3_Witness == Returned /\ Cardinality(visited) >= 3 /\ visited = Reach

\* C4: from the moment queue.join() is released on, the queue is empty and
\* no worker is between queue.get() and task_done(); a worker with a
\* cancellation pending is at queue.get() or still starting.
C4_QuiescentWhenReleased ==
  /\ coordPc \in {"woken", "done"} =>
       /\ queue = <<>>
       /\ unfinished = 0
       /\ \A w \in Workers : pc[w] \in {"start", "get", "stopped"}
  /\ \A w \in Workers : cancelReq[w] => pc[w] \in {"start", "get"}

\* the workers are cancelled after a run in which links were enqueued
C4_Witness ==
  /\ Returned
  /\ hist.linksFrom # {}
  /\ \E w \in Workers : cancelReq[w] /\ pc[w] = "get"

\* C5, as claimed: with page.goto failing for the URLs of F the run ends
\* with every URL reachable in the site graph visited and a Page row for
\* exactly the reachable URLs outside F.
C5_AllReachableVisited ==
  Returned =>
    /\ visited = Reach
    /\ {p.url : p \in store.pages} = Reach \ hist.renderFailed

\* C5, amended: with page.goto failing for the URLs of F the run still
\* returns, the visited set is then the set of URLs reachable from the seed
\* over pages that rendered (F included, the URLs linked only from pages of
\* F not), and the store holds a Page row for exactly the visited URLs
\* outside F.
C5_ReachableOverRenderedVisited ==
  /\ <>Returned
  /\ [](Returned =>
          /\ hist.renderFailed \subseteq visited
          /\ visited = ReachExcept(hist.renderFailed)
          /\ {p.url : p \in store.pages} = visited \ hist.renderFailed)

\* a run has returned in which a page failed to render, which hid URLs
\* linked only from it, and other pages were stored
C5_Witness ==
  /\ Returned
  /\ hist.renderFailed # {}
  /\ visited # Reach
  /\ store.pages # {}

\* C6: in the first run, for every URL not scraped before, the committed
\* store holds its Link, Page and Tag rows all together or none of them.
C6_AllOrNothing ==
  run = "first" =>
    \A u \in AllUrls \ site.prior :
      /\ HasLink(u) <=> HasPage(u)
      /\ HasPage(u) <=> HasTag(u)

\* C7: in the first run, every URL whose processing has ended, whose own
\* render and extraction succeeded and whose page had no Tag row before, is
\* committed and had its links enqueued, whatever failed earlier in the
\* worker that processed it.
C7_FailureIsolated ==
  run = "first" =>
    \A u \in visited \ InFlight :
      (u \notin hist.renderFailed \cup hist.extractFailed \cup site.prior)
        => HasPage(u) /\ HasTag(u) /\ u \in hist.linksFrom

\* C8: a page on which the extraction of one tag failed is still stored
\* (Link, Page and Tag rows) and has its links enqueued.
C8_ExtractionFailureLocal ==
  \A u \in hist.extractFailed \ InFlight :
    HasLink(u) /\ HasPage(u) /\ HasTag(u) /\ u \in hist.linksFrom

\* C9: a second run in which no render and no extraction fails, after a
\* first run of which the same is true, visits the URLs the first visited.
C9_SecondRunVisitsSame ==
  ( /\ run = "second"
    /\ Returned
    /\ hist.first.clean
    /\ hist.renderFailed = {}
    /\ hist.extractFailed = {} )
  => visited = hist.first.visited

\* C10: when scrape_links reports the visited count, every worker task has
\* ended.
C10_ReportsAfterWorkersStopped ==
  reported # -1 => \A w \in Workers : pc[w] = "stopped"

\* C11: every URL put into the queue or passed to page.goto has the origin
\* (scheme and host) of the base url.
C11_SameOriginOnly ==
  \A u \in AllUrls :
    (hist.putCount[u] > 0 \/ hist.gotoCount[u] > 0)
      => Origin(u) = Origin(site.base)

\* C12, as claimed: no URL ending in '#' or a denylisted extension is ever
\* put into the queue or passed to page.goto, the seed included.
C12_NoAssetQueuedOrRendered ==
  \A u \in AllUrls :
    IsAsset(u) => hist.putCount[u] = 0 /\ hist.gotoCount[u] = 0

\* C12, amended: no such URL is ever passed to page.goto or enters the
\* visited set, and none but the seed is ever put into the queue; the seed is
\* put once without any test and is dropped when it is taken from the queue.
C12_NoAssetRenderedOnlySeedQueued ==
  \A u \in AllUrls :
    IsAsset(u) =>
      /\ hist.gotoCount[u] = 0
      /\ hist.admitCount[u] = 0
      /\ u \notin visited
      /\ \A w \in Workers : cur[w] # u
      /\ hist.putCount[u] = (IF u = site.base THEN 1 ELSE 0)

\* a seed that is an asset was taken from the queue and dropped, and the run
\* ended with nothing visited
C12_Witness ==
  /\ IsAsset(site.base)
  /\ Returned
  /\ queue = <<>>
  /\ visited = {}

\* the URLs for which page.goto was called in this run
RenderAttempted == {u \in AllUrls : hist.gotoCount[u] >= 1}

\* some session holds an uncommitted row for u
HasPending(u) ==
  \E w \in Workers :
    \/ \E l \in sess[w].links : l.url = u
    \/ \E p \in sess[w].pages : p.url = u

\* C13: a URL whose render failed stays in the visited set, was admitted and
\* fetched once and never again in the run, has had no Link, Page or Tag
\* statement executed for it (and, where no earlier run wrote one, has no
\* such row), and the count reported at the end of the run is the number of
\* distinct URLs for which a render was attempted, failed ones included.
C13_RenderFailureVisitedUnwrittenCounted ==
  /\ \A u \in hist.renderFailed :
       /\ u \in visited
       /\ hist.gotoCount[u] = 1
       /\ hist.admitCount[u] = 1
       /\ u \notin hist.written
       /\ ~HasPending(u)
       /\ hist.steps[u] = <<"goto", "done">>
       /\ (run = "first" /\ u \notin site.prior) =>
            ~HasLink(u) /\ ~HasPage(u) /\ ~HasTag(u)
  /\ reported # -1 => reported = Cardinality(RenderAttempted)

\* a run has returned in which a render failed, other pages were rendered,
\* and the failed one is in the reported count
C13_Witness ==
  /\ Returned
  /\ hist.renderFailed # {}
  /\ RenderAttempted \ hist.renderFailed # {}
  /\ reported = Cardinality(RenderAttempted)
  /\ reported >= 3

\* the awaits of the loop body before session.commit() has returned
BeforeCommit ==
  {"goto", "sleep", "title", "save_link", "save_page", "extract", "save_tag",
   "commit"}

\* the number of completion signals given for u
DoneCount(u) ==
  Cardinality({i \in 1..Len(hist.steps[u]) : hist.steps[u][i] = "done"})

Processing == {w \in Workers : pc[w] \in BeforeCommit \cup {"links"}}

\* C20: every queue.get() that returned is followed by exactly one
\* task_done() on every path of the loop body, so the unfinished count of
\* the queue is the number of queued items plus the number of workers
\* between get and task_done, and is never negative.
C20_UnfinishedAccounting ==
  /\ unfinished = Len(queue) + Cardinality(Processing)
  /\ unfinished >= 0

\* an interrupted run in which a render failed, a processing step raised and
\* a worker was cancelled while processing; every worker has ended
C20_Witness ==
  /\ \A w \in Workers : pc[w] = "stopped"
  /\ hist.cancelled # {}
  /\ hist.renderFailed # {}
  /\ hist.extractFailed \cup hist.dbFailed # {}
  /\ unfinished = Len(queue)

\* the steps of a URL that is processed to the end, in the order claimed
StepOrder ==
  <<"goto", "sleep", "save_link", "save_page", "extract", "save_tag",
    "commit", "links">>

\* the steps taken for u, the reading of the title and the completion
\* signal left out
StepsBeforeDone(u) ==
  SelectSeq(hist.steps[u], LAMBDA x : x \notin {"title", "done"})

\* C19: for every URL a worker processes, the steps taken so far are an
\* initial part of: render, delay, Link write, Page upsert, tag extraction,
\* Tag Bundle write, commit, enumeration and enqueueing of the links; the
\* completion signal comes once, last, and the enqueueing is followed by
\* it; a failed render is followed by the completion signal only.
C19_StepsInOrder ==
  \A u \in AllUrls :
    LET s == hist.steps[u]
        b == StepsBeforeDone(u)
    IN  /\ Len(b) <= Len(StepOrder)
        /\ b = SubSeq(StepOrder, 1, Len(b))
        /\ \A i \in 1..Len(s) : s[i] = "done" => i = Len(s)
        /\ \A i \in 1..Len(s) : s[i] = "title" => i = 3
        /\ Len(b) = Len(StepOrder) => s[Len(s)] = "done"
        /\ u \in hist.renderFailed => s = <<"goto", "done">>

\* one URL went through every step and the render of another failed
C19_Witness ==
  /\ \E u \in AllUrls :
       hist.steps[u] = <<"goto", "sleep", "title", "save_link", "save_page",
                         "extract", "save_tag", "commit", "links", "done">>
  /\ \E u \in hist.renderFailed : hist.steps[u] = <<"goto", "done">>

\* C15: save_page called for a URL that already has a Page row (written by
\* an earlier save_page) leaves exactly one Page row for the URL, carrying
\* the title and the website id of this second call and the id of the row
\* that was there, which is the id both calls return; a first call leaves
\* one row with a new id.  The committed rows never hold two rows for a URL.
C15_SavePageUpserts ==
  /\ \A p1, p2 \in store.pages : p1.url = p2.url => p1 = p2
  /\ hist.last.op = "save_page" =>
       LET c == hist.last
           rows == {p \in VisiblePages(sess[c.w], store) : p.url = c.url}
       IN  /\ rows = {[id |-> c.ret, name |-> extract_name(c.url),
                       url |-> c.url, title |-> c.title,
                       website_id |-> c.wid]}
           /\ c.had # 0 => c.ret = c.had
           /\ c.had = 0 => \A p \in VisiblePages(sess[c.w], store) :
                             p.url # c.url => p.id # c.ret

\* a second save_page for a URL with another title and another website id
C15_Witness ==
  /\ hist.last.op = "save_page"
  /\ hist.last.had # 0
  /\ \E p \in hist.last.before :
       /\ p.title # hist.last.title
       /\ p.website_id # hist.last.wid
       /\ p.id = hist.last.ret
  /\ Cardinality(VisiblePages(sess[hist.last.w], store)) >= 2

\* C16: save_tag for a page the session sees a Tag Bundle of is refused
\* (the transaction is aborted and nothing is added) and the committed
\* bundle of the page is what it was; save_tag for a page without one adds
\* the bundle; at every point the committed rows, and the rows any session
\* sees, hold at most one Tag Bundle per page.
C16_SecondSaveTagRefused ==
  /\ \A t1, t2 \in store.tags : t1.page_id = t2.page_id => t1 = t2
  /\ \A w \in Workers : \A t1, t2 \in VisibleTags(sess[w], store) :
       t1.page_id = t2.page_id => t1 = t2
  /\ hist.last.op = "save_tag" =>
       LET c == hist.last
           mine == {t \in VisibleTags(sess[c.w], store) : t.page_id = c.page_id}
       IN  /\ c.refused <=> c.before # {}
           /\ c.refused =>
                /\ sess[c.w].st = "aborted"
                /\ sess[c.w].tags = {}
                /\ {t \in store.tags : t.page_id = c.page_id} = c.stored
           /\ ~c.refused =>
                mine = {[page_id |-> c.page_id, data |-> TagValues(c.data)]}

\* a save_tag was refused for a page with a committed bundle of other data
C16_Witness ==
  /\ hist.last.op = "save_tag"
  /\ hist.last.refused
  /\ \E t \in store.tags :
       /\ t.page_id = hist.last.page_id
       /\ t.data # TagValues(hist.last.data)

\* C17: when the required input is empty (base URL, page URL or tags), the
\* program ends with a non-zero exit status.
C17_InvalidInputExitsNonZero ==
  (prog.pc = "exited" /\ ~prog.valid) => prog.exit # 0

\* C18: with valid input the program ends with exit status zero whatever
\* failed on individual pages, in whole-site mode and in single-URL mode.
C18_ValidInputExitsZero ==
  (prog.pc = "exited" /\ prog.valid) => prog.exit = 0

\* the pages of this run whose processing failed
FailedPages == hist.renderFailed \cup hist.extractFailed \cup hist.dbFailed

\* the URLs put into the queue by a worker in this run (the seed is put
\* once by scrape_links)
PutByWorker ==
  {u \in AllUrls : hist.putCount[u] > (IF u = site.base THEN 1 ELSE 0)}

\* C21: a URL is put into the queue by a worker only if it is a link of a
\* page that went through the Link write, the Page upsert, the Tag Bundle
\* write and the commit in this run, so that the store holds the page's
\* Link, Page and Tag rows; a page whose render, extraction or persistence
\* failed has had none of its links enqueued.
C21_EnqueuedFromCommittedPagesOnly ==
  /\ \A u \in PutByWorker : \E p \in hist.linksFrom : u \in LinkTargets(p)
  /\ \A p \in hist.linksFrom :
       /\ p \notin FailedPages
       /\ hist.steps[p] = <<"goto", "sleep", "title", "save_link",
                            "save_page", "extract", "save_tag", "commit",
                            "links", "done">>
       /\ HasLink(p) /\ HasPage(p) /\ HasTag(p)
  /\ \A p \in FailedPages : "links" \notin
       {hist.steps[p][i] : i \in 1..Len(hist.steps[p])}

\* a run has returned in which a page contributed URLs and a page that
\* links to a URL nobody else links to failed in extraction or persistence
C21_Witness ==
  /\ Returned
  /\ hist.linksFrom # {}
  /\ PutByWorker # {}
  /\ \E p \in hist.extractFailed \cup hist.dbFailed :
       \E u \in LinkTargets(p) : Admittable(u) /\ u \notin visited

\* C23: in crawl mode the committed rows are such that every Page row the
\* run wrote has a Link row with the same URL and the same website, and
\* every Tag row refers to a Page row.
C23_PagesHaveLinksTagsHavePages ==
  /\ \A p \in store.pages :
       p.url \in hist.pagesCommitted =>
         \E l \in store.links :
           l.url = p.url /\ l.website_id = p.website_id
  /\ \A t \in store.tags : \E p \in store.pages : p.id = t.page_id

\* C22: once a worker task is in its take loop, the run on a finite site
\* returns, with nothing left in the queue and nothing unfinished, whichever
\* worker tasks died during start-up and whichever pages failed to render,
\* to be extracted or to be stored.
C22_TerminatesWithOneWorkerInLoop ==
  (\E w \in Workers : pc[w] = "get") ~>
     (Returned /\ queue = <<>> /\ unfinished = 0)

\* a run has returned in which a worker task died during start-up and pages
\* failed, with several pages visited
C22_Witness ==
  /\ Returned
  /\ hist.launchFailed # {}
  /\ hist.renderFailed # {}
  /\ hist.extractFailed \cup hist.dbFailed # {}
  /\ Cardinality(visited) >= 3
  /\ queue = <<>>

====
